---- MODULE Spec2Model ----
(***************************************************************************)
(* Model of the ROSA HCP test suite runner (run-test-suite.py): the CLI    *)
(* entry point, the batch runner, the suite orchestrator and the playbook  *)
(* executor with its child process.                                        *)
(*                                                                         *)
(* Optional values (Python None / a missing dict key) are sequences of     *)
(* length 0 or 1.  Texts (captured output, error messages) are sequences   *)
(* of strings, joined by concatenation as ''.join does.                    *)
(***************************************************************************)
EXTENDS Integers, Sequences, FiniteSets, TLC

\* ---------------------------------------------------------------- bounds
MaxSuites == 2      \* suite files that may sit in test-suites/
MaxPlaybooks == 2   \* playbooks of one suite definition
MaxTime == 1        \* seconds the wall clock advances during one run
MaxTimeout == 1     \* largest "timeout" a playbook spec carries
MaxLines == 1       \* lines the child processes of one run write

\* ------------------------------------------------------------ optionals
None == <<>>
Some(x) == <<x>>
IsSome(o) == o # None
Get(o, default) == IF o = None THEN default ELSE o[1]
Opt(S) == {None} \cup {Some(x) : x \in S}

\* ------------------------------------------------------------ input sets
SuiteIds == 1..MaxSuites
Tags == {"rosa-hcp"}
OutputLine == "PLAY RECAP\n"
Absent == <<"<absent>">>

\* command lines; --all is drawn without a positional suite id, which main
\* does not read once --all is set
Args ==
    {a \in [suite_id : Opt(SuiteIds), all : BOOLEAN, tag : Opt(Tags), list : BOOLEAN] :
        a.all => a.suite_id = None}

\* a file of test-suites/: absent, not parseable as JSON, or a suite with tags
SuiteFiles ==
    {[status |-> "missing", tags |-> {}], [status |-> "invalid", tags |-> {}]}
        \cup [status : {"ok"}, tags : SUBSET Tags]

\* playbooks[i] of a suite definition
PlaybookSpecs(i) ==
    [name : {i}, exists : BOOLEAN, required : Opt(BOOLEAN),
     timeout : Opt(1..MaxTimeout), description : {None}, test_case_id : {None}]

\* a suite definition: its stopOnFailure key and the length of its playbooks
\* list, whose entries are drawn when the loop reads them
SuiteDatas == [stopOnFailure : Opt(BOOLEAN), playbooks : 0..MaxPlaybooks]

VARIABLES
    args,        \* parsed command line
    dir,         \* test-suites/ : suite id -> file
    pc,          \* position of the control thread
    now,         \* wall clock, seconds since the start of main
    results,     \* runner.results
    queue,       \* run_all_suites: suites still to run
    all_passed,  \* run_all_suites: all_passed
    cur,         \* run_test_suite: suite_data, loop index and suite_results
    proc,        \* run_playbook: the child process and what was read of it
    orphans,     \* child processes left running, neither killed nor waited for
    written,     \* lines written by child processes so far
    launches,    \* history: every Popen that created a process
    executed,    \* history: number of PlaybookResults run_playbook returned
    outcome,     \* history: what the latest run_playbook met (file, process)
    interrupted, \* history: a KeyboardInterrupt reached main
    returns,     \* history: every return of run_test_suite
    success,     \* main: success
    saved,       \* the persisted JSON report, once written
    exit_code    \* process exit code, once main returned

\* run_playbook's command line, modelled on its own (SpecCmd)
VARIABLES
    cli_extra_vars,      \* main: args.extra_vars, the -e strings as typed
    dry_run,             \* main: args.dry_run
    verbosity,           \* main: args.verbose
    playbook_extra_vars, \* playbook["extra_vars"], when the key is present
    cmd                  \* the argv handed to subprocess.Popen, once built

cmdVars == <<cli_extra_vars, dry_run, verbosity, playbook_extra_vars, cmd>>

VARIABLES
    junit,               \* the JUnit document save_results wrote, once written
    html                 \* the HTML report save_results wrote, once written

\* scripts/mce_env_manager.py, modelled on its own (SpecStore)
VARIABLES
    environments,        \* MCEEnvManager.environments['environments']
    db,                  \* the 'environments' list of the file at db_path, if any
    clock,               \* datetime.now()
    last_call            \* history: the latest call and what it returned

storeVars == <<environments, db, clock, last_call>>

\* scripts/parse-test-env.py, modelled on its own (SpecParse)
VARIABLES
    parser_env_data,     \* parser.env_data: its 'cluster' entry, if any
    parsed,              \* history: the latest parse_spreadsheet_row call, the
                         \* number of parts of its row and what it returned
    api_urls             \* history: the API URLs derived from env_data so far

parserVars == <<parser_env_data, parsed, api_urls>>

\* the state outside the run of the suites
otherVars == <<cmdVars, storeVars, parserVars>>

vars == <<args, dir, pc, now, results, queue, all_passed, cur, proc, orphans,
          written, launches, executed, outcome, interrupted, returns, success, saved,
          exit_code, junit, html, otherVars>>

NoPlaybook == [name |-> 0, exists |-> FALSE, required |-> None, timeout |-> None,
               description |-> None, test_case_id |-> None]
NoSuite == [id |-> 0, stopOnFailure |-> None, playbooks |-> 0, idx |-> 0,
            playbook |-> NoPlaybook, playbooks_done |-> <<>>]
NoOutcome == [kind |-> "none", returncode |-> 0]
NoProc == [state |-> "none", start |-> 0, wait_start |-> 0, output |-> <<>>]

\* no variables typed, none in the playbook spec, no command line built
CmdIdle ==
    /\ cli_extra_vars = <<>>
    /\ dry_run = FALSE
    /\ verbosity = 0
    /\ playbook_extra_vars = None
    /\ cmd = None

NoCall == [op |-> "none", arg |-> None, value |-> None]

\* no store file, a manager that loaded nothing
StoreIdle ==
    /\ environments = <<>>
    /\ db = None
    /\ clock = 0
    /\ last_call = NoCall

NoUrls == [info |-> None, login |-> None, select |-> None]

\* a parser just built, nothing parsed or shown
ParserIdle ==
    /\ parser_env_data = [cluster |-> None]
    /\ parsed = None
    /\ api_urls = NoUrls

\* runner.results as __init__ builds it
InitialResults ==
    [total_tests |-> 0, passed |-> 0, failed |-> 0, skipped |-> 0, suites |-> <<>>]

Init ==
    /\ args \in Args
    /\ dir \in [SuiteIds -> SuiteFiles]
    /\ pc = "main"
    /\ now = 0
    /\ results = InitialResults
    /\ queue = <<>>
    /\ all_passed = TRUE
    /\ cur = NoSuite
    /\ proc = NoProc
    /\ orphans = 0
    /\ written = 0
    /\ launches = <<>>
    /\ executed = 0
    /\ outcome = NoOutcome
    /\ interrupted = FALSE
    /\ returns = <<>>
    /\ success = FALSE
    /\ saved = None
    /\ exit_code = None
    /\ junit = None
    /\ html = None
    /\ CmdIdle
    /\ StoreIdle
    /\ ParserIdle

\* ------------------------------------------------------ Playbook Executor
PlaybookPath(pb) == ToString(pb.name)

\* faulty variant: the missing file is reported as a pass
NotFoundResultPassing(pb) ==
    [name |-> pb.name, success |-> TRUE,
     error |-> <<"Playbook not found: ", ToString(pb.name)>>,
     duration |-> 0, output |-> Absent,
     description |-> Absent, test_case_id |-> Absent]

NotFoundResult(pb) ==
    [name |-> pb.name, success |-> FALSE,
     error |-> <<"Playbook not found: ", PlaybookPath(pb)>>,
     duration |-> 0, output |-> Absent,
     description |-> Absent, test_case_id |-> Absent]

SuccessResult(pb, duration, output) ==
    [name |-> pb.name, success |-> TRUE, error |-> Absent,
     duration |-> duration, output |-> output,
     description |-> Get(pb.description, <<>>),
     test_case_id |-> Get(pb.test_case_id, <<>>)]

FailedResult(pb, duration, output) ==
    [name |-> pb.name, success |-> FALSE, error |-> output,
     duration |-> duration, output |-> output,
     description |-> Get(pb.description, <<>>),
     test_case_id |-> Get(pb.test_case_id, <<>>)]

\* faulty variant: any exit code counts as a pass
ExitResultAlwaysPassing(pb, returncode, duration, output) ==
    SuccessResult(pb, duration, output)

ExitResult(pb, returncode, duration, output) ==
    IF returncode = 0 THEN SuccessResult(pb, duration, output)
    ELSE FailedResult(pb, duration, output)

TimeoutResult(pb, duration) ==
    [name |-> pb.name, success |-> FALSE,
     error |-> <<"Timeout after ", ToString(Get(pb.timeout, 0)), " seconds">>,
     duration |-> duration, output |-> Absent,
     description |-> Get(pb.description, <<>>),
     test_case_id |-> Get(pb.test_case_id, <<>>)]

ErrorResult(pb, duration, e) ==
    [name |-> pb.name, success |-> FALSE, error |-> <<e>>,
     duration |-> duration, output |-> Absent,
     description |-> Get(pb.description, <<>>),
     test_case_id |-> Get(pb.test_case_id, <<>>)]

LaunchErrorText == "[Errno 2] No such file or directory: 'ansible-playbook'"
ReadErrorText == "'utf-8' codec can't decode byte"
ExitCodes == {0, 2}

\* ----------------------------------------------------- Suite Orchestrator
Counted(res, r) ==
    IF r.success THEN [res EXCEPT !.passed = @ + 1]
    ELSE [res EXCEPT !.failed = @ + 1]

\* faulty variant: the suite's stopOnFailure flag is not consulted
StopNowAnySuite(suite, pb, r) ==
    /\ ~r.success
    /\ Get(pb.required, TRUE)

\* faulty variant: the playbook's "required" key is not consulted
StopNowAnyPlaybook(suite, pb, r) ==
    /\ ~r.success
    /\ Get(suite.stopOnFailure, FALSE)

StopNow(suite, pb, r) ==
    /\ ~r.success
    /\ Get(suite.stopOnFailure, FALSE)
    /\ Get(pb.required, TRUE)

SuiteFinished(res, suite, done) ==
    [res EXCEPT !.suites = Append(@, [id |-> suite.id, playbooks |-> done]),
                !.total_tests = suite.playbooks]

SuiteSuccess(res) == res.failed = 0

IsBatch == args.all \/ IsSome(args.tag)

\* faulty variant: a suite that returns false ends the batch
ReturnFromSuiteEndingBatch(id, ret, res) ==
    /\ results' = res
    /\ returns' = Append(returns, [id |-> id, success |-> ret])
    /\ cur' = NoSuite
    /\ IF IsBatch
       THEN /\ all_passed' = (all_passed /\ ret)
            /\ queue' = IF ret THEN Tail(queue) ELSE <<>>
            /\ IF Tail(queue) = <<>> \/ ~ret
               THEN success' = (all_passed /\ ret) /\ pc' = "finish"
               ELSE success' = success /\ pc' = "batch"
       ELSE /\ success' = ret
            /\ pc' = "finish"
            /\ UNCHANGED <<all_passed, queue>>

\* run_test_suite returns ret, leaving runner.results = res; control goes back
\* to run_all_suites (next suite, or its return to main) or to main.
ReturnFromSuite(id, ret, res) ==
    /\ results' = res
    /\ returns' = Append(returns, [id |-> id, success |-> ret])
    /\ cur' = NoSuite
    /\ IF IsBatch
       THEN /\ all_passed' = (all_passed /\ ret)
            /\ queue' = Tail(queue)
            /\ IF Tail(queue) = <<>>
               THEN success' = (all_passed /\ ret) /\ pc' = "finish"
               ELSE success' = success /\ pc' = "batch"
       ELSE /\ success' = ret
            /\ pc' = "finish"
            /\ UNCHANGED <<all_passed, queue>>

\* the loop body after run_playbook returned r for what it met (o): append,
\* count, break or go on
Complete(r, o) ==
    /\ executed' = executed + 1
    /\ outcome' = o
    /\ results' = Counted(results, r)
    /\ IF StopNow(cur, cur.playbook, r) \/ cur.idx = cur.playbooks
       THEN /\ cur' = [cur EXCEPT !.playbook = NoPlaybook,
                                  !.playbooks_done = Append(@, r)]
            /\ pc' = "suite_end"
       ELSE /\ cur' = [cur EXCEPT !.idx = @ + 1, !.playbook = NoPlaybook,
                                  !.playbooks_done = Append(@, r)]
            /\ pc' = "suite"
    /\ UNCHANGED <<returns, all_passed, queue, success>>

\* ---------------------------------------------------------- HTML report
\* lines a playbook may print that the patterns of _extract_environment_info
\* look for
LoginLine ==
    "Successfully logged in - User: kube:admin | API: https://api.hub:6443 | Context: hub\n"
CapiLine == "CAPI controller deployed - {'name': 'capi-controller-manager'}\n"
CapaLine == "CAPA controller deployed - {'name': 'capa-controller-manager'}\n"
NetworkLine == "RosaNetwork resources found\n"
NoNetworkLine == "No RosaNetwork resources found\n"
SecretLine == "rosa-creds-secret found\n"
NoSecretLine == "rosa-creds-secret not found\n"

\* pat in playbook_output, for the fixed texts; a line 'No RosaNetwork
\* resources found' holds 'RosaNetwork resources found' too
Contains(playbook_output, pat) ==
    \E i \in DOMAIN playbook_output :
        \/ playbook_output[i] = pat
        \/ playbook_output[i] = NoNetworkLine /\ pat = NetworkLine

\* _extract_environment_info: env_info as the set of its <<key, value>> items
ExtractEnvironmentInfo(playbook_output) ==
    (IF Contains(playbook_output, LoginLine)
     THEN {<<"ocp_user", "kube:admin">>, <<"ocp_api_url", "https://api.hub:6443">>,
           <<"ocp_context", "hub">>}
     ELSE {})
    \cup (IF Contains(playbook_output, CapiLine)
          THEN {<<"capi_controller", "{'name': 'capi-controller-manager'}">>} ELSE {})
    \cup (IF Contains(playbook_output, CapaLine)
          THEN {<<"capa_controller", "{'name': 'capa-controller-manager'}">>} ELSE {})
    \cup (IF Contains(playbook_output, NetworkLine) \/ Contains(playbook_output, NoNetworkLine)
          THEN IF Contains(playbook_output, NoNetworkLine)
               THEN {<<"rosa_network", "none">>} ELSE {<<"rosa_network", "available">>}
          ELSE {})
    \cup (IF Contains(playbook_output, SecretLine)
          THEN {<<"rosa_role_config", "available">>}
          ELSE IF Contains(playbook_output, NoSecretLine)
          THEN {<<"rosa_role_config", "none">>} ELSE {})

\* the loop of _generate_html_report over the playbooks of one suite, and
\* over the suites: the first non-empty env_info ends both
RECURSIVE EnvInfoOfPlaybooks(_)
EnvInfoOfPlaybooks(playbooks) ==
    IF playbooks = <<>> THEN {}
    ELSE IF /\ playbooks[1].success
            /\ playbooks[1].output # Absent /\ playbooks[1].output # <<>>
            /\ ExtractEnvironmentInfo(playbooks[1].output) # {}
    THEN ExtractEnvironmentInfo(playbooks[1].output)
    ELSE EnvInfoOfPlaybooks(Tail(playbooks))

RECURSIVE EnvInfoOfSuites(_)
EnvInfoOfSuites(suites) ==
    IF suites = <<>> THEN {}
    ELSE IF EnvInfoOfPlaybooks(suites[1].playbooks) # {}
    THEN EnvInfoOfPlaybooks(suites[1].playbooks)
    ELSE EnvInfoOfSuites(Tail(suites))

\* passed_pct = passed / max(total_tests, 1) * 100, kept as a fraction
PassedPct(res) ==
    [num |-> res.passed * 100,
     den |-> IF res.total_tests > 1 THEN res.total_tests ELSE 1]

\* _generate_html_report: the environment section, present when env_info is
\* not empty, and the counters shown
GenerateHtmlReport(res) ==
    [env_info |-> EnvInfoOfSuites(res.suites),
     env_section |-> EnvInfoOfSuites(res.suites) # {},
     total_tests |-> res.total_tests, passed |-> res.passed, failed |-> res.failed,
     passed_pct |-> PassedPct(res)]

\* --------------------------------------------------------- JUnit report
\* playbook.get('test_case_id', ''), playbook.get('description', playbook['name'])
TestcaseId(p) == IF p.test_case_id = Absent THEN <<>> ELSE p.test_case_id
TestcaseDescription(p) ==
    IF p.description = Absent THEN <<ToString(p.name)>> ELSE p.description

\* faulty variant: the test-case id is left out of the name
TestcaseNameWithoutId(p) == TestcaseDescription(p)

TestcaseName(p) ==
    IF TestcaseId(p) # <<>>
    THEN TestcaseId(p) \o <<": ">> \o TestcaseDescription(p)
    ELSE TestcaseDescription(p)

\* the <failure> element: type, message, text
FailureBlock(p) ==
    [type |-> "TestFailure",
     message |-> IF p.error = Absent THEN <<"Test failed">> ELSE p.error,
     text |-> <<"Playbook: ", ToString(p.name), "\n", "Error: ">>
                \o (IF p.error = Absent THEN <<"Unknown error">> ELSE p.error)
                \o <<"\n">>
                \o (IF p.output # Absent /\ p.output # <<>>
                    THEN <<"\nOutput:\n">> \o p.output ELSE <<>>)]

Testcase(p) ==
    [name |-> TestcaseName(p), time |-> p.duration,
     failure |-> IF ~p.success THEN Some(FailureBlock(p)) ELSE None]

\* sum(1 for p in suite['playbooks'] if not p['success'])
RECURSIVE SuiteFailures(_)
SuiteFailures(playbooks) ==
    IF playbooks = <<>> THEN 0
    ELSE (IF ~playbooks[1].success THEN 1 ELSE 0) + SuiteFailures(Tail(playbooks))

Testsuite(suite) ==
    [tests |-> Len(suite.playbooks),
     failures |-> SuiteFailures(suite.playbooks),
     errors |-> 0, skipped |-> 0,
     testcases |-> [k \in DOMAIN suite.playbooks |-> Testcase(suite.playbooks[k])]]

\* _generate_junit_xml: the testsuites element and its children
GenerateJunitXml(res) ==
    [tests |-> res.total_tests, failures |-> res.failed, errors |-> 0,
     skipped |-> res.skipped,
     testsuites |-> [j \in DOMAIN res.suites |-> Testsuite(res.suites[j])]]

\* ---------------------------------------------------------- Batch Runner
\* the files of test-suites/ are numbered 1..MaxSuites; file i holds the suite
\* "s", "s-x", "s-x-x", ... , the longest identifier first
SuiteId(i) ==
    <<"s">> \o [j \in 1..(2 * (MaxSuites - i)) |-> IF j % 2 = 1 THEN "-" ELSE "x"]
FileName(i) == SuiteId(i) \o <<".", "j", "s", "o", "n">>

\* ord() of the characters of these names
CharCode(c) ==
    CASE c = "-" -> 45 [] c = "." -> 46 [] c = "j" -> 106 [] c = "n" -> 110
      [] c = "o" -> 111 [] c = "s" -> 115 [] c = "x" -> 120

\* a < b for two strings
TextLess(a, b) ==
    \E k \in 1..(Len(a) + 1) :
        /\ k <= Len(b)
        /\ \A j \in 1..(k - 1) : a[j] = b[j]
        /\ k <= Len(a) => CharCode(a[k]) < CharCode(b[k])

\* sorted(self.test_suites_dir.glob("*.json")): the paths in ascending order
SortedGlob ==
    CHOOSE s \in [1..MaxSuites -> SuiteIds] :
        \A i, j \in 1..MaxSuites : i < j => TextLess(FileName(s[i]), FileName(s[j]))

ListTestSuites ==
    LET Loadable(i) == dir[i].status = "ok"
    IN  SelectSeq(SortedGlob, Loadable)

SelectedSuites(tag_filter) ==
    LET Tagged(i) == tag_filter[1] \in dir[i].tags
    IN  IF IsSome(tag_filter) THEN SelectSeq(ListTestSuites, Tagged)
        ELSE ListTestSuites

\* ---------------------------------------------------------------- actions
envVars == <<args, dir>>
procVars == <<proc, orphans, written, launches>>
suiteVars == <<results, queue, all_passed, cur, executed, outcome, returns, success>>
mainVars == <<interrupted, saved, exit_code, junit, html>>

Main ==
    /\ pc = "main"
    /\ IF args.list
       THEN exit_code' = Some(0) /\ pc' = "done"
       ELSE IF ~IsSome(args.suite_id) /\ ~args.all
       THEN exit_code' = Some(1) /\ pc' = "done"
       ELSE exit_code' = exit_code
            /\ pc' = IF args.all \/ IsSome(args.tag) THEN "run_all" ELSE "run_one"
    /\ UNCHANGED <<envVars, otherVars, procVars, suiteVars, now, interrupted, saved,
                   junit, html>>

RunAllSuites ==
    /\ pc = "run_all"
    /\ LET suites == SelectedSuites(args.tag)
       IN  IF suites = <<>>
           THEN success' = FALSE /\ pc' = "finish" /\ UNCHANGED <<queue, all_passed>>
           ELSE queue' = suites /\ all_passed' = TRUE /\ pc' = "batch"
                /\ UNCHANGED success
    /\ UNCHANGED <<envVars, otherVars, procVars, results, cur, executed, outcome, returns, now,
                   mainVars>>

\* load_test_suite, header, suite_results; the loop is entered or skipped
RunTestSuite ==
    /\ pc \in {"run_one", "batch"}
    /\ LET id == IF pc = "run_one" THEN args.suite_id[1] ELSE Head(queue)
       IN  IF dir[id].status # "ok"
           THEN ReturnFromSuite(id, FALSE, results)
           ELSE \E data \in SuiteDatas :
                  /\ cur' = [id |-> id, stopOnFailure |-> data.stopOnFailure,
                             playbooks |-> data.playbooks, idx |-> 1,
                             playbook |-> NoPlaybook, playbooks_done |-> <<>>]
                  /\ pc' = IF data.playbooks = 0 THEN "suite_end" ELSE "suite"
                  /\ UNCHANGED <<results, queue, all_passed, returns, success>>
    /\ UNCHANGED <<envVars, otherVars, procVars, executed, outcome, now, mainVars>>

\* after the loop: duration, suite summary, runner.results, return value
SuiteEnd ==
    /\ pc = "suite_end"
    /\ ReturnFromSuite(cur.id,
                       SuiteSuccess(SuiteFinished(results, cur, cur.playbooks_done)),
                       SuiteFinished(results, cur, cur.playbooks_done))
    /\ UNCHANGED <<envVars, otherVars, procVars, executed, outcome, now, mainVars>>

\* the loop reads playbooks[idx] and calls run_playbook
RunPlaybook ==
    /\ pc = "suite"
    /\ \E pb \in PlaybookSpecs(cur.idx) : cur' = [cur EXCEPT !.playbook = pb]
    /\ pc' = "playbook"
    /\ UNCHANGED <<envVars, otherVars, procVars, results, queue, all_passed, executed, outcome,
                   returns, success, now, mainVars>>

PlaybookNotFound ==
    /\ pc = "playbook"
    /\ ~cur.playbook.exists
    /\ Complete(NotFoundResult(cur.playbook), [kind |-> "not_found", returncode |-> 0])
    /\ UNCHANGED <<envVars, otherVars, procVars, now, mainVars>>

\* subprocess.Popen raises
LaunchError ==
    /\ pc = "playbook"
    /\ cur.playbook.exists
    /\ Complete(ErrorResult(cur.playbook, 0, LaunchErrorText),
                [kind |-> "launch_error", returncode |-> 0])
    /\ UNCHANGED <<envVars, otherVars, procVars, now, mainVars>>

Launch ==
    /\ pc = "playbook"
    /\ cur.playbook.exists
    /\ proc' = [state |-> "open", start |-> now, wait_start |-> 0, output |-> <<>>]
    /\ launches' = Append(launches, <<cur.id, cur.idx>>)
    /\ pc' = "proc"
    /\ UNCHANGED <<envVars, otherVars, suiteVars, orphans, written, now, mainVars>>

\* the child writes a line; the read loop prints and stores it
ProcWrite ==
    /\ pc = "proc"
    /\ proc.state = "open"
    /\ written < MaxLines
    /\ proc' = [proc EXCEPT !.output = Append(@, OutputLine)]
    /\ written' = written + 1
    /\ UNCHANGED <<envVars, otherVars, suiteVars, pc, orphans, launches, now, mainVars>>

\* process.wait(timeout) raises once timeout seconds passed since its call
Deadline ==
    /\ proc.state = "closed"
    /\ IsSome(cur.playbook.timeout)
    /\ now - proc.wait_start >= Get(cur.playbook.timeout, 0)

Tick ==
    /\ pc = "proc"
    /\ now < MaxTime
    /\ ~Deadline
    /\ now' = now + 1
    /\ UNCHANGED <<envVars, otherVars, suiteVars, procVars, pc, mainVars>>

\* the child closes its output and keeps running: the read loop ends and
\* process.wait(timeout=timeout) starts
ProcCloseStdout ==
    /\ pc = "proc"
    /\ proc.state = "open"
    /\ proc' = [proc EXCEPT !.state = "closed", !.wait_start = now]
    /\ UNCHANGED <<envVars, otherVars, suiteVars, pc, orphans, written, launches, now, mainVars>>

ProcExit ==
    /\ pc = "proc"
    /\ ~Deadline
    /\ \E returncode \in ExitCodes :
         Complete(ExitResult(cur.playbook, returncode, now - proc.start,
                             proc.output),
                  [kind |-> "exit", returncode |-> returncode])
    /\ proc' = NoProc
    /\ UNCHANGED <<envVars, otherVars, orphans, written, launches, now, mainVars>>

\* TimeoutExpired: process.kill(), process.wait(), re-raise, outer handler
WaitTimeout ==
    /\ pc = "proc"
    /\ Deadline
    /\ Complete(TimeoutResult(cur.playbook, now - proc.start),
                [kind |-> "timeout", returncode |-> 0])
    /\ proc' = NoProc
    /\ UNCHANGED <<envVars, otherVars, orphans, written, launches, now, mainVars>>

\* an exception while reading process.stdout: the child is neither killed
\* nor waited for
ReadError ==
    /\ pc = "proc"
    /\ proc.state = "open"
    /\ Complete(ErrorResult(cur.playbook, now - proc.start, ReadErrorText),
                [kind |-> "read_error", returncode |-> 0])
    /\ proc' = NoProc
    /\ orphans' = orphans + 1
    /\ UNCHANGED <<envVars, otherVars, written, launches, now, mainVars>>

\* KeyboardInterrupt anywhere inside main's try block; the child, if any, got
\* the signal too or was left running
Interrupt ==
    /\ pc \in {"run_all", "run_one", "batch", "suite", "playbook", "proc", "suite_end"}
    /\ interrupted' = TRUE
    /\ results' = [results EXCEPT !.failed = @ + 1]
    /\ success' = FALSE
    /\ pc' = "finish"
    /\ cur' = NoSuite
    /\ queue' = <<>>
    /\ proc' = NoProc
    /\ \E left \in BOOLEAN :
         orphans' = IF left /\ proc.state # "none" THEN orphans + 1 ELSE orphans
    /\ UNCHANGED <<envVars, otherVars, all_passed, executed, outcome, returns, written,
                   launches, now, saved, exit_code, junit,
                   html>>

\* end_time, duration, final summary, save_results, exit code
Finish ==
    /\ pc = "finish"
    /\ saved' = Some(results)
    /\ html' = Some(GenerateHtmlReport(results))
    /\ junit' = Some(GenerateJunitXml(results))
    /\ exit_code' = Some(IF success THEN 0 ELSE 1)
    /\ pc' = "done"
    /\ UNCHANGED <<envVars, otherVars, procVars, suiteVars, now, interrupted>>

Next ==
    \/ Main
    \/ RunAllSuites
    \/ RunTestSuite
    \/ SuiteEnd
    \/ RunPlaybook
    \/ PlaybookNotFound
    \/ LaunchError
    \/ Launch
    \/ ProcWrite
    \/ Tick
    \/ ProcCloseStdout
    \/ ProcExit
    \/ WaitTimeout
    \/ ReadError
    \/ Interrupt
    \/ Finish

Spec == Init /\ [][Next]_vars

\* one suite run by id: run-test-suite.py <suite_id>, test-suites/ holding at
\* most that suite's file
InitSingle ==
    /\ Init
    /\ IsSome(args.suite_id) /\ ~args.all /\ ~IsSome(args.tag) /\ ~args.list
    /\ \A i \in SuiteIds : i # args.suite_id[1] => dir[i].status = "missing"

NextSingle ==
    \/ Main
    \/ RunTestSuite
    \/ SuiteEnd
    \/ RunPlaybook
    \/ PlaybookNotFound
    \/ LaunchError
    \/ Launch
    \/ ProcWrite
    \/ Tick
    \/ ProcCloseStdout
    \/ ProcExit
    \/ WaitTimeout
    \/ ReadError
    \/ Interrupt
    \/ Finish

SpecSingle == InitSingle /\ [][NextSingle]_vars

\* the runner at position p with runner.results = res and nothing else going on
RunnerAt(p, res) ==
    /\ args = [suite_id |-> None, all |-> FALSE, tag |-> None, list |-> FALSE]
    /\ dir = [i \in SuiteIds |-> [status |-> "missing", tags |-> {}]]
    /\ pc = p
    /\ now = 0
    /\ results = res
    /\ queue = <<>>
    /\ all_passed = TRUE
    /\ cur = NoSuite
    /\ proc = NoProc
    /\ orphans = 0
    /\ written = 0
    /\ launches = <<>>
    /\ executed = 0
    /\ outcome = NoOutcome
    /\ interrupted = FALSE
    /\ returns = <<>>
    /\ success = FALSE
    /\ saved = None
    /\ exit_code = None
    /\ junit = None
    /\ html = None

\* the runner at rest: the state of the run while another part of the
\* repository is looked at on its own
RunnerIdle == RunnerAt("idle", InitialResults)

runnerVars == <<envVars, procVars, suiteVars, mainVars, pc, now>>

\* ------------------------------------------- run_playbook's command line
MaxCliVars == 2       \* -e options on the command line
MaxPlaybookVars == 2  \* keys of a playbook's extra_vars

\* a dict is the sequence of its <<key, value>> items in insertion order, the
\* keys distinct; keys and values are texts
DictKeys(d) == {d[i][1] : i \in DOMAIN d}

\* d[k] = v: a present key keeps its place
DictSet(d, k, v) ==
    IF k \in DictKeys(d)
    THEN [i \in DOMAIN d |-> IF d[i][1] = k THEN <<k, v>> ELSE d[i]]
    ELSE Append(d, <<k, v>>)

\* faulty variant: keys already present keep their values
RECURSIVE DictUpdateKeepingOld(_, _)
DictUpdateKeepingOld(d, u) ==
    IF u = <<>> THEN d
    ELSE DictUpdateKeepingOld(IF u[1][1] \in DictKeys(d) THEN d
                              ELSE Append(d, u[1]), Tail(u))

\* d.update(u)
RECURSIVE DictUpdate(_, _)
DictUpdate(d, u) ==
    IF u = <<>> THEN d
    ELSE DictUpdate(DictSet(d, u[1][1], u[1][2]), Tail(u))

VarNames == {<<"AUTOMATION_PATH">>, <<"dry_run">>, <<"region">>}
BaseDir == <<"/repo">>
PlaybookFile == <<"/repo/", "playbook.yml">>

\* the -e strings: name=value, a value that holds '=' itself, and a string
\* without '='
CliValues == {<<"cli">>, <<"a", "=", "b">>}
RawVars == VarNames \cup {k \o <<"=">> \o v : k \in VarNames, v \in CliValues}

BoundedSeq(S, n) == UNION {[1..m -> S] : m \in 0..n}

\* the extra_vars objects a playbook spec may carry
PlaybookDicts ==
    {d \in BoundedSeq(VarNames \X {<<"json">>}, MaxPlaybookVars) :
        \A i, j \in DOMAIN d : d[i][1] = d[j][1] => i = j}

Verbosities == {0, 2, 5}

\* var.split('=', 1)
HasEq(var) == \E i \in DOMAIN var : var[i] = "="
FirstEq(var) == CHOOSE i \in DOMAIN var : var[i] = "=" /\ \A j \in 1..(i - 1) : var[j] # "="
Split1(var) ==
    <<SubSeq(var, 1, FirstEq(var) - 1), SubSeq(var, FirstEq(var) + 1, Len(var))>>

\* main: the loop over args.extra_vars, strings without '=' ignored
RECURSIVE ParseInto(_, _)
ParseInto(extra_vars, raw) ==
    IF raw = <<>> THEN extra_vars
    ELSE IF HasEq(raw[1])
    THEN ParseInto(DictSet(extra_vars, Split1(raw[1])[1], Split1(raw[1])[2]), Tail(raw))
    ELSE ParseInto(extra_vars, Tail(raw))

ParseExtraVars(raw) == ParseInto(<<>>, raw)

\* TestSuiteRunner.__init__: self.extra_vars
RunnerExtraVars(extra_vars) ==
    IF extra_vars # <<>>
    THEN DictUpdate(<<<<<<"AUTOMATION_PATH">>, BaseDir>>>>, extra_vars)
    ELSE <<<<<<"AUTOMATION_PATH">>, BaseDir>>>>

\* run_playbook: all_vars
AllVars(pb_vars, self_extra_vars, dry) ==
    LET own == IF IsSome(pb_vars) THEN DictUpdate(<<>>, pb_vars[1]) ELSE <<>>
        merged == DictUpdate(own, self_extra_vars)
    IN  IF dry THEN DictSet(merged, <<"dry_run">>, <<"true">>) ELSE merged

\* "-" + "v" * min(verbosity, 4)
VerbosityFlag(v) == <<"-">> \o [i \in 1..(IF v < 4 THEN v ELSE 4) |-> "v"]

RECURSIVE VarOptions(_)
VarOptions(all_vars) ==
    IF all_vars = <<>> THEN <<>>
    ELSE <<<<"-e">>, all_vars[1][1] \o <<"=">> \o all_vars[1][2]>>
            \o VarOptions(Tail(all_vars))

\* run_playbook: cmd
Command(pb_vars, self_extra_vars, dry, v) ==
    <<<<"ansible-playbook">>, PlaybookFile>>
        \o (IF v > 0 THEN <<VerbosityFlag(v)>> ELSE <<>>)
        \o VarOptions(AllVars(pb_vars, self_extra_vars, dry))

InitCmd ==
    /\ RunnerIdle
    /\ StoreIdle
    /\ ParserIdle
    /\ cli_extra_vars \in BoundedSeq(RawVars, MaxCliVars)
    /\ dry_run \in BOOLEAN
    /\ verbosity \in Verbosities
    /\ playbook_extra_vars \in Opt(PlaybookDicts)
    /\ cmd = None

\* main parses -e and builds the runner; run_playbook builds cmd for Popen
BuildCommand ==
    /\ cmd = None
    /\ cmd' = Some(Command(playbook_extra_vars,
                           RunnerExtraVars(ParseExtraVars(cli_extra_vars)),
                           dry_run, verbosity))
    /\ UNCHANGED <<runnerVars, storeVars, parserVars, cli_extra_vars, dry_run, verbosity,
                   playbook_extra_vars>>

NextCmd == BuildCommand

SpecCmd == InitCmd /\ [][NextCmd]_vars

\* ------------------------------------------- the renderer on a RunResult
MaxReportPlaybooks == 3  \* PlaybookResults of one RunResult

Descriptions == {<<"Create the cluster">>}
TestCaseIds == {<<"RHACM4K-1">>}

\* the playbook specs behind the results of a report
ReportPlaybooks ==
    [name : {1}, exists : {TRUE}, required : {None}, timeout : {None},
     description : Opt(Descriptions), test_case_id : Opt(TestCaseIds)]

\* PlaybookResults as run_playbook returns them
ReportResults ==
    {NotFoundResult(pb) : pb \in ReportPlaybooks}
        \cup {SuccessResult(pb, 1, <<OutputLine>>) : pb \in ReportPlaybooks}
        \cup {FailedResult(pb, 1, <<OutputLine>>) : pb \in ReportPlaybooks}

RECURSIVE SumTo(_, _)
SumTo(sizes, n) == IF n = 0 THEN 0 ELSE sizes[n] + SumTo(sizes, n - 1)

\* the SuiteResults made of the flat sequence of results cut into suites
\* of the given sizes
SuitesOf(flat, sizes) ==
    [j \in DOMAIN sizes |->
        [id |-> j,
         playbooks |-> SubSeq(flat, SumTo(sizes, j - 1) + 1, SumTo(sizes, j))]]

\* runner.results after the suites ran: the counters as run_test_suite
\* leaves them
RunResultOf(suites) ==
    [total_tests |-> IF suites = <<>> THEN 0 ELSE Len(suites[Len(suites)].playbooks),
     passed |-> SumTo([j \in DOMAIN suites |->
                          Len(suites[j].playbooks) - SuiteFailures(suites[j].playbooks)],
                      Len(suites)),
     failed |-> SumTo([j \in DOMAIN suites |-> SuiteFailures(suites[j].playbooks)],
                      Len(suites)),
     skipped |-> 0,
     suites |-> suites]

\* main about to save a RunResult made of PlaybookResults from R
InitReportOf(R) ==
    \E flat \in BoundedSeq(R, MaxReportPlaybooks) :
      \E n \in 0..MaxSuites :
        \E sizes \in [1..n -> 0..MaxReportPlaybooks] :
          /\ SumTo(sizes, n) = Len(flat)
          /\ RunnerAt("finish", RunResultOf(SuitesOf(flat, sizes)))
          /\ CmdIdle
          /\ StoreIdle
          /\ ParserIdle

InitReport == InitReportOf(ReportResults)

\* main after the run: the summary and save_results
NextReport == Finish

SpecReport == InitReport /\ [][NextReport]_vars

\* the outputs behind the environment section: none, no pattern, a login
\* line, a network line after another line
PlainPlaybook ==
    [name |-> 1, exists |-> TRUE, required |-> None, timeout |-> None,
     description |-> None, test_case_id |-> None]
EnvOutputs == {<<>>, <<OutputLine>>, <<LoginLine>>, <<OutputLine, NoNetworkLine>>}
EnvResults ==
    {NotFoundResult(PlainPlaybook), FailedResult(PlainPlaybook, 1, <<LoginLine>>)}
        \cup {SuccessResult(PlainPlaybook, 1, output) : output \in EnvOutputs}

InitEnvReport == InitReportOf(EnvResults)

SpecEnvReport == InitEnvReport /\ [][NextReport]_vars

\* ------------------------------------------------------ Environment Store
MaxClock == 1  \* the latest time datetime.now() returns

\* JSON null
Null == <<"<null>">>

\* strings are sequences of characters; str.lower() on the letters used
LowerChar(c) ==
    CASE c = "H" -> "h" [] c = "J" -> "j" [] c = "N" -> "n" [] c = "P" -> "p"
      [] OTHER -> c
Lower(text) == [i \in DOMAIN text |-> LowerChar(text[i])]

\* q in text
IsSubstring(q, text) ==
    \E i \in 0..(Len(text) - Len(q)) : SubSeq(text, i + 1, i + Len(q)) = q

ClusterNames == {<<"h", "1">>, <<"H", "2">>}
Platforms == {<<"P">>}
\* the 'notification' object of the parser's env_data: the key missing, or
\* jira and polarion, each a string or null
Notifications ==
    {None, Some([jira |-> <<"J", "7">>, polarion |-> Null]),
     Some([jira |-> Null, polarion |-> <<"p", "9">>])}
EnvDatas ==
    [cluster : [hub_cluster : ClusterNames, platform : Platforms],
     notification : Notifications]
Notes == {<<"N">>}
Queries == {<<>>, <<"h">>, <<"P">>, <<"n">>, <<"j", "7">>, <<"9">>, <<"z">>}

\* faulty variant: the scan starts at the second record
ExistingIdxFromSecond(envs, cluster_name) ==
    IF \E i \in DOMAIN envs : i > 1 /\ envs[i].cluster_name = cluster_name
    THEN CHOOSE i \in DOMAIN envs : i > 1 /\ envs[i].cluster_name = cluster_name
    ELSE 0

\* the index of the first record named cluster_name, 0 when there is none
ExistingIdx(envs, cluster_name) ==
    IF \E i \in DOMAIN envs : envs[i].cluster_name = cluster_name
    THEN CHOOSE i \in DOMAIN envs :
            /\ envs[i].cluster_name = cluster_name
            /\ \A j \in 1..(i - 1) : envs[j].cluster_name # cluster_name
    ELSE 0

EnvRecord(env_data, added, accessed, status, notes) ==
    [cluster_name |-> env_data.cluster.hub_cluster,
     platform |-> env_data.cluster.platform,
     added_date |-> added,
     last_accessed |-> accessed,
     status |-> status,
     notes |-> notes,
     data |-> env_data]

\* faulty variant: a record of that name is appended again
AddedAlwaysAppending(envs, env_data, t1, t2) ==
    Append(envs, EnvRecord(env_data, t1, t2, "unknown", <<>>))

\* add_environment: the list after the upsert, t1 and t2 being the two
\* readings of the clock
Added(envs, env_data, t1, t2) ==
    LET existing_idx == ExistingIdx(envs, env_data.cluster.hub_cluster)
    IN  IF existing_idx # 0
        THEN [envs EXCEPT ![existing_idx] =
                 EnvRecord(env_data, envs[existing_idx].added_date, t2, "unknown", <<>>)]
        ELSE Append(envs, EnvRecord(env_data, t1, t2, "unknown", <<>>))

\* faulty variant: the lookup stamps the record's added date as well
AccessedTouchingAdded(envs, cluster_name, t) ==
    [envs EXCEPT ![ExistingIdx(envs, cluster_name)].last_accessed = t,
                 ![ExistingIdx(envs, cluster_name)].added_date = t]

\* get_environment on a present name: the list after the lookup
Accessed(envs, cluster_name, t) ==
    [envs EXCEPT ![ExistingIdx(envs, cluster_name)].last_accessed = t]

\* update_status on a present name; notes are kept unless given and not empty
Updated(envs, cluster_name, status, notes, t) ==
    [envs EXCEPT ![ExistingIdx(envs, cluster_name)] =
        [@ EXCEPT !.status = status, !.last_accessed = t,
                  !.notes = IF notes # None /\ notes[1] # <<>> THEN notes[1] ELSE @]]

\* envs.sort(key=last_accessed, reverse=True): stable, records of equal key
\* keep their order
RECURSIVE SortedByAccess(_)
SortedByAccess(envs) ==
    IF envs = <<>> THEN <<>>
    ELSE LET first == CHOOSE i \in DOMAIN envs :
                         /\ \A j \in DOMAIN envs : envs[j].last_accessed <= envs[i].last_accessed
                         /\ \A j \in 1..(i - 1) : envs[j].last_accessed < envs[i].last_accessed
         IN  <<envs[first]>>
               \o SortedByAccess(SubSeq(envs, 1, first - 1) \o SubSeq(envs, first + 1, Len(envs)))

\* one record against the lower-cased query, clause by clause as the 'or'
\* chain evaluates them; None.lower() raises
TicketOf(env, field) ==
    IF env.data.notification = None THEN <<>> ELSE env.data.notification[1][field]

MatchOutcome(query, env) ==
    IF IsSubstring(query, Lower(env.cluster_name)) THEN "match"
    ELSE IF IsSubstring(query, Lower(env.platform)) THEN "match"
    ELSE IF IsSubstring(query, Lower(env.notes)) THEN "match"
    ELSE IF TicketOf(env, "jira") = Null THEN "AttributeError"
    ELSE IF IsSubstring(query, Lower(TicketOf(env, "jira"))) THEN "match"
    ELSE IF TicketOf(env, "polarion") = Null THEN "AttributeError"
    ELSE IF IsSubstring(query, Lower(TicketOf(env, "polarion"))) THEN "match"
    ELSE "nomatch"

\* search_environments: the exception, or the results
Searched(envs, query) ==
    LET Hit(env) == MatchOutcome(Lower(query), env) = "match"
    IN  IF \E i \in DOMAIN envs : MatchOutcome(Lower(query), envs[i]) = "AttributeError"
        THEN [raised |-> TRUE, results |-> <<>>]
        ELSE [raised |-> FALSE, results |-> SelectSeq(envs, Hit)]

PlatformFilters == {<<"p">>, <<"z">>}
StatusFilters == {"pass"}

\* list_environments: the list it returns, and the list it sorted
Listed(envs, platform_filter, status_filter) ==
    LET ByPlatform(e) == IsSubstring(Lower(platform_filter[1]), Lower(e.platform))
        ByStatus(e) == e.status = status_filter[1]
        one == IF IsSome(platform_filter) /\ platform_filter[1] # <<>>
               THEN SelectSeq(envs, ByPlatform) ELSE envs
        two == IF IsSome(status_filter) THEN SelectSeq(one, ByStatus) ELSE one
    IN  SortedByAccess(two)

\* with no filter the sorted list is the manager's own list object
ListedInPlace(platform_filter, status_filter) ==
    /\ ~(IsSome(platform_filter) /\ platform_filter[1] # <<>>)
    /\ ~IsSome(status_filter)

\* load_db: the list of the file, the empty default when there is no file
Loaded == IF IsSome(db) THEN db[1] ELSE <<>>

InitStore ==
    /\ RunnerIdle
    /\ CmdIdle
    /\ StoreIdle
    /\ ParserIdle

\* add_environment(env_data), as the parser calls it
AddEnvironment ==
    \E env_data \in EnvDatas : \E t1 \in clock..MaxClock : \E t2 \in t1..MaxClock :
        /\ environments' = Added(environments, env_data, t1, t2)
        /\ db' = Some(Added(environments, env_data, t1, t2))
        /\ clock' = t2
        /\ last_call' = [op |-> "add", arg |-> Some(env_data.cluster.hub_cluster),
                         value |-> Some(env_data.cluster.hub_cluster)]
        /\ UNCHANGED <<runnerVars, cmdVars, parserVars>>

\* update_status(cluster_name, status, notes) on a manager holding envs
UpdateStatusCall(envs, cluster_name, status, notes) ==
    IF ExistingIdx(envs, cluster_name) # 0
    THEN \E t \in clock..MaxClock :
           /\ environments' = Updated(envs, cluster_name, status, notes, t)
           /\ db' = Some(Updated(envs, cluster_name, status, notes, t))
           /\ clock' = t
           /\ last_call' = [op |-> "update", arg |-> Some(cluster_name),
                            value |-> Some(TRUE)]
    ELSE /\ environments' = envs
         /\ last_call' = [op |-> "update", arg |-> Some(cluster_name),
                          value |-> Some(FALSE)]
         /\ UNCHANGED <<db, clock>>

UpdateStatus ==
    \E cluster_name \in ClusterNames : \E notes \in Opt(Notes) :
        /\ UpdateStatusCall(environments, cluster_name, "pass", notes)
        /\ UNCHANGED <<runnerVars, cmdVars, parserVars>>

\* get_environment(cluster_name)
GetEnvironment ==
    \E cluster_name \in ClusterNames :
        /\ IF ExistingIdx(environments, cluster_name) # 0
           THEN \E t \in clock..MaxClock :
                  /\ environments' = Accessed(environments, cluster_name, t)
                  /\ db' = Some(Accessed(environments, cluster_name, t))
                  /\ clock' = t
                  /\ last_call' =
                        [op |-> "get", arg |-> Some(cluster_name),
                         value |-> Some(Accessed(environments, cluster_name, t)
                                            [ExistingIdx(environments, cluster_name)])]
           ELSE /\ last_call' = [op |-> "get", arg |-> Some(cluster_name), value |-> None]
                /\ UNCHANGED <<environments, db, clock>>
        /\ UNCHANGED <<runnerVars, cmdVars, parserVars>>

\* list_environments(platform_filter, status_filter)
ListEnvironments ==
    \E platform_filter \in Opt(PlatformFilters) : \E status_filter \in Opt(StatusFilters) :
        /\ environments' = IF ListedInPlace(platform_filter, status_filter)
                           THEN SortedByAccess(environments) ELSE environments
        /\ last_call' = [op |-> "list", arg |-> Some(<<platform_filter, status_filter>>),
                         value |-> Some(Listed(environments, platform_filter, status_filter))]
        /\ UNCHANGED <<db, clock, runnerVars, cmdVars, parserVars>>

\* search_environments(query)
SearchEnvironments ==
    \E query \in Queries :
        /\ last_call' = [op |-> "search", arg |-> Some(query),
                         value |-> IF Searched(environments, query).raised THEN None
                                   ELSE Some(Searched(environments, query).results)]
        /\ UNCHANGED <<environments, db, clock, runnerVars, cmdVars, parserVars>>

\* delete_environment(cluster_name)
DeleteEnvironment ==
    \E cluster_name \in ClusterNames :
        LET Others(e) == e.cluster_name # cluster_name
        IN  /\ environments' = SelectSeq(environments, Others)
            /\ db' = Some(SelectSeq(environments, Others))
            /\ last_call' = [op |-> "delete", arg |-> Some(cluster_name), value |-> None]
            /\ UNCHANGED <<clock, runnerVars, cmdVars, parserVars>>

\* a later run of the script: MCEEnvManager() loads the file again
LoadDb ==
    /\ environments' = Loaded
    /\ last_call' = [op |-> "load", arg |-> None, value |-> None]
    /\ UNCHANGED <<db, clock, runnerVars, cmdVars, parserVars>>

NextStore ==
    \/ AddEnvironment
    \/ UpdateStatus
    \/ GetEnvironment
    \/ ListEnvironments
    \/ SearchEnvironments
    \/ DeleteEnvironment
    \/ LoadDb

SpecStore == InitStore /\ [][NextStore]_vars

\* ------------------------------------------ the store's command line
\* Each run of a script builds a manager, which loads the file, and makes
\* one call.

\* status=None, as --add-notes passes it
NoneStatus == "<None>"
\* the STATUS words typed after --update-status
StatusWords == {"pass", "done"}
\* the answers to "Select (1-4)"
StatusChoices == {"2", "9"}
\* status_map.get(status_choice)
StatusMap(status_choice) ==
    CASE status_choice = "1" -> Some("pass")
      [] status_choice = "2" -> Some("fail")
      [] status_choice = "3" -> Some("blocked")
      [] status_choice = "4" -> Some("in_progress")
      [] OTHER -> None

\* parse-test-env.py, interactive_mode: the parsed data is added
AutoSave ==
    \E env_data \in EnvDatas : \E t1 \in clock..MaxClock : \E t2 \in t1..MaxClock :
        /\ env_data.notification = None
        /\ environments' = Added(Loaded, env_data, t1, t2)
        /\ db' = Some(Added(Loaded, env_data, t1, t2))
        /\ clock' = t2
        /\ last_call' = [op |-> "add", arg |-> Some(env_data.cluster.hub_cluster),
                         value |-> Some(env_data.cluster.hub_cluster)]
        /\ UNCHANGED <<runnerVars, cmdVars, parserVars>>

\* main: --update-status CLUSTER STATUS
MainUpdateStatus ==
    \E cluster \in ClusterNames : \E status \in StatusWords :
        /\ UpdateStatusCall(Loaded, cluster, status, None)
        /\ UNCHANGED <<runnerVars, cmdVars, parserVars>>

\* main: --add-notes CLUSTER NOTES
MainAddNotes ==
    \E cluster \in ClusterNames : \E notes \in Notes :
        /\ UpdateStatusCall(Loaded, cluster, NoneStatus, Some(notes))
        /\ UNCHANGED <<runnerVars, cmdVars, parserVars>>

\* main: --delete CLUSTER
MainDelete ==
    \E cluster \in ClusterNames :
        LET Others(e) == e.cluster_name # cluster
        IN  /\ environments' = SelectSeq(Loaded, Others)
            /\ db' = Some(SelectSeq(Loaded, Others))
            /\ last_call' = [op |-> "delete", arg |-> Some(cluster), value |-> None]
            /\ UNCHANGED <<clock, runnerVars, cmdVars, parserVars>>

\* main: --list
MainList ==
    /\ environments' = SortedByAccess(Loaded)
    /\ last_call' = [op |-> "list", arg |-> Some(<<None, None>>),
                     value |-> Some(Listed(Loaded, None, None))]
    /\ UNCHANGED <<db, clock, runnerVars, cmdVars, parserVars>>

\* interactive_select, "s [num]": a listing under at most one filter, a
\* record of it, a status choice and notes. The 'u' action on a viewed
\* record makes the same call with the record's hub_cluster, which
\* add_environment stored as its cluster_name.
SelectUpdateStatus ==
    \E platform_filter \in Opt(PlatformFilters) : \E status_filter \in Opt(StatusFilters) :
      \E status_choice \in StatusChoices : \E notes \in Notes \cup {<<>>} :
        LET envs == Listed(Loaded, platform_filter, status_filter)
            held == IF ListedInPlace(platform_filter, status_filter)
                    THEN SortedByAccess(Loaded) ELSE Loaded
            new_status == StatusMap(status_choice)
        IN  /\ ~(IsSome(platform_filter) /\ IsSome(status_filter))
            /\ \E idx \in DOMAIN envs :
                 IF IsSome(new_status)
                 THEN UpdateStatusCall(held, envs[idx].cluster_name, new_status[1],
                                       IF notes = <<>> THEN None ELSE Some(notes))
                 ELSE /\ environments' = held
                      /\ last_call' = [op |-> "select", arg |-> Some(envs[idx].cluster_name),
                                       value |-> None]
                      /\ UNCHANGED <<db, clock>>
            /\ UNCHANGED <<runnerVars, cmdVars, parserVars>>

NextStoreCli ==
    \/ AutoSave
    \/ MainUpdateStatus
    \/ MainAddNotes
    \/ MainDelete
    \/ MainList
    \/ SelectUpdateStatus

SpecStoreCli == InitStore /\ [][NextStoreCli]_vars

\* ------------------------------------------------ the environment parser
\* scripts/parse-test-env.py on rows of one line without quotes, no
\* notification given

MaxCells == 7  \* the most cells of a row

\* \s on the characters used
IsSpace(c) == c \in {" ", "\t"}

\* str.strip()
Strip(text) ==
    IF \A i \in DOMAIN text : IsSpace(text[i]) THEN <<>>
    ELSE LET first == CHOOSE i \in DOMAIN text :
                         ~IsSpace(text[i]) /\ \A j \in 1..(i - 1) : IsSpace(text[j])
             last == CHOOSE i \in DOMAIN text :
                        ~IsSpace(text[i]) /\ \A j \in (i + 1)..Len(text) : IsSpace(text[j])
         IN  SubSeq(text, first, last)

\* re.split(r'\t+|\s{4,}', text) from position i on, part being the piece
\* read so far: at a tab the run of tabs is one separator, elsewhere a run
\* of four or more whitespace characters is
RECURSIVE SplitFrom(_, _, _)
SplitFrom(text, i, part) ==
    IF i > Len(text) THEN <<part>>
    ELSE LET RunEnd(Among(_)) ==
                 CHOOSE j \in i..Len(text) :
                    /\ \A k \in i..j : Among(text[k])
                    /\ j < Len(text) => ~Among(text[j + 1])
             IsTab(c) == c = "\t"
         IN  IF IsTab(text[i])
             THEN <<part>> \o SplitFrom(text, RunEnd(IsTab) + 1, <<>>)
             ELSE IF IsSpace(text[i]) /\ RunEnd(IsSpace) - i + 1 >= 4
             THEN <<part>> \o SplitFrom(text, RunEnd(IsSpace) + 1, <<>>)
             ELSE SplitFrom(text, i + 1, Append(part, text[i]))

\* re.search(label + r'\s*([^\n"]+)', versions), group 1 stripped; null
\* when nothing follows any occurrence of the label
VersionAfter(label, versions) ==
    LET At(i) == /\ i + Len(label) <= Len(versions)
                 /\ SubSeq(versions, i, i + Len(label) - 1) = label
    IN  IF \E i \in DOMAIN versions : At(i)
        THEN LET i == CHOOSE i \in DOMAIN versions :
                         At(i) /\ \A j \in 1..(i - 1) : ~At(j)
             IN  Strip(SubSeq(versions, i + Len(label), Len(versions)))
        ELSE Null

\* the 'cluster' entry built from six or more parts
ClusterOf(parts) ==
    [platform |-> Strip(parts[1]),
     hub_cluster |-> Strip(parts[2]),
     ocp_version |-> Strip(parts[3]),
     mce_version |-> VersionAfter(<<"M", "C", "E", ":">>, Strip(parts[4])),
     acm_version |-> VersionAfter(<<"A", "C", "M", ":">>, Strip(parts[4])),
     status |-> Strip(parts[5]),
     password |-> Strip(parts[6]),
     console_url |-> IF Len(parts) > 6 THEN Strip(parts[7]) ELSE <<>>]

\* generate_connection_info: the API URL for a hub name and a platform
ApiUrl(hub_name, platform) ==
    IF IsSubstring(<<"I", "B", "M">>, platform)
          \/ IsSubstring(<<"P", "o", "w", "e", "r">>, platform)
    THEN <<"https://api.">> \o hub_name \o <<".rdr-ppcloud.sandbox.cis.ibm.net:6443">>
    ELSE IF IsSubstring(<<"A", "R", "M">>, platform)
               \/ IsSubstring(<<"A", "W", "S">>, platform)
    THEN <<"https://api.">> \o hub_name \o <<".dev09.red-chesterfield.com:6443">>
    ELSE <<"https://api.">> \o hub_name \o <<":6443">>

\* main, --login: the API URL handed to 'oc login'
LoginApiUrl(hub_name, platform) ==
    IF IsSubstring(<<"I", "B", "M">>, platform)
          \/ IsSubstring(<<"P", "o", "w", "e", "r">>, platform)
    THEN <<"https://api.">> \o hub_name \o <<".rdr-ppcloud.sandbox.cis.ibm.net:6443">>
    ELSE <<"https://api.">> \o hub_name \o <<".dev09.red-chesterfield.com:6443">>

\* mce_env_manager.py, interactive_select: the API URL of the connection
\* command
SelectApiUrl(cluster_name, platform) ==
    IF IsSubstring(<<"I", "B", "M">>, platform)
          \/ IsSubstring(<<"P", "o", "w", "e", "r">>, platform)
    THEN <<"https://api.">> \o cluster_name \o <<".rdr-ppcloud.sandbox.cis.ibm.net:6443">>
    ELSE IF IsSubstring(<<"A", "R", "M">>, platform)
               \/ IsSubstring(<<"A", "W", "S">>, platform)
    THEN <<"https://api.">> \o cluster_name \o <<".dev09.red-chesterfield.com:6443">>
    ELSE <<"https://api.">> \o cluster_name \o <<":6443">>

PlatformNames ==
    {<<"I", "B", "M">>, <<"P", "o", "w", "e", "r">>, <<"A", "R", "M">>,
     <<"A", "W", "S">>, <<"x", "8", "6">>, <<"A", "R", "M", " ", "I", "B", "M">>}
Separators == {<<"\t">>, <<" ", " ", " ", " ">>, <<"\t", " ", " ", " ", " ">>}
VersionTexts == {<<"v">>, <<"M", "C", "E", ":", " ", "2">>}

\* the first n cells of a row: platform, hub, OCP, versions, status,
\* password, console URL, then anything
Cells(platform, versions, n) ==
    [k \in 1..n |->
        CASE k = 1 -> platform
          [] k = 2 -> <<"h", "1">>
          [] k = 3 -> <<"4">>
          [] k = 4 -> versions
          [] k = 5 -> <<"R">>
          [] k = 6 -> <<"w">>
          [] OTHER -> <<"c">>]

\* cells joined by sep
RECURSIVE Joined(_, _)
Joined(cells, sep) ==
    IF cells = <<>> THEN <<>>
    ELSE IF Len(cells) = 1 THEN cells[1]
    ELSE Joined(SubSeq(cells, 1, Len(cells) - 1), sep) \o sep \o cells[Len(cells)]

\* the rows pasted or given with --row
Rows ==
    {Joined(Cells(platform, versions, n), sep) :
        platform \in PlatformNames, versions \in VersionTexts,
        n \in 0..MaxCells, sep \in Separators}

InitParse ==
    /\ RunnerIdle
    /\ CmdIdle
    /\ StoreIdle
    /\ ParserIdle

\* parser = TestEnvParser()
NewParser ==
    /\ parser_env_data' = [cluster |-> None]
    /\ parsed' = None
    /\ api_urls' = NoUrls
    /\ UNCHANGED <<runnerVars, cmdVars, storeVars>>

\* what parse_spreadsheet_row makes of row_data: the number of parts, and
\* the 'cluster' entry it builds from six parts or more
RowParse(row_data) ==
    LET parts == SplitFrom(Strip(row_data), 1, <<>>)
    IN  [fields |-> Len(parts),
         cluster |-> IF Len(parts) >= 6 THEN Some(ClusterOf(parts)) ELSE None]

RowParses == {RowParse(row_data) : row_data \in Rows}

\* parser.parse_spreadsheet_row(row_data)
ParseSpreadsheetRow ==
    \E row \in RowParses :
        LET cluster == IF row.fields >= 6 THEN row.cluster ELSE parser_env_data.cluster
        IN  /\ parser_env_data' = [cluster |-> cluster]
            /\ parsed' = Some([fields |-> row.fields, value |-> cluster])
            /\ api_urls' = IF cluster = parser_env_data.cluster THEN api_urls ELSE NoUrls
            /\ UNCHANGED <<runnerVars, cmdVars, storeVars>>

\* print(parser.generate_connection_info())
GenerateConnectionInfo ==
    /\ api_urls' =
          [api_urls EXCEPT !.info =
              IF parser_env_data.cluster = None THEN Some(<<"No cluster data available">>)
              ELSE Some(ApiUrl(parser_env_data.cluster[1].hub_cluster,
                               parser_env_data.cluster[1].platform))]
    /\ UNCHANGED <<parser_env_data, parsed, runnerVars, cmdVars, storeVars>>

\* main: --login, after the connection info was printed
Login ==
    /\ IsSome(api_urls.info)
    /\ parser_env_data.cluster # None
    /\ api_urls' =
          [api_urls EXCEPT !.login =
              Some(LoginApiUrl(parser_env_data.cluster[1].hub_cluster,
                               parser_env_data.cluster[1].platform))]
    /\ UNCHANGED <<parser_env_data, parsed, runnerVars, cmdVars, storeVars>>

\* interactive_mode added the parser's data to the store; interactive_select shows
\* the connection command of that record
SelectConnect ==
    /\ IsSome(api_urls.info)
    /\ parser_env_data.cluster # None
    /\ api_urls' =
          [api_urls EXCEPT !.select =
              Some(SelectApiUrl(parser_env_data.cluster[1].hub_cluster,
                                parser_env_data.cluster[1].platform))]
    /\ UNCHANGED <<parser_env_data, parsed, runnerVars, cmdVars, storeVars>>

NextParse ==
    \/ NewParser
    \/ ParseSpreadsheetRow
    \/ GenerateConnectionInfo
    \/ Login
    \/ SelectConnect

SpecParse == InitParse /\ [][NextParse]_vars

\* ------------------------------------------------------------ properties
Last(seq) == seq[Len(seq)]

AllResults ==
    UNION {{results.suites[j].playbooks[k] : k \in DOMAIN results.suites[j].playbooks} :
               j \in DOMAIN results.suites}

\* a step in which run_playbook returned and the loop body recorded its result
PlaybookCompletes == executed' = executed + 1

\* a step in which run_test_suite returned after its loop
SuiteCompletes == pc = "suite_end" /\ returns' # returns

\* C1: with stop-on-failure disabled, a completed run_test_suite appends one
\* SuiteResult that holds exactly N PlaybookResults, N being the number of
\* playbooks of the suite definition, whatever the playbooks' outcomes.
C1_AllPlaybooksReported ==
    [][(SuiteCompletes /\ cur.stopOnFailure # Some(TRUE))
          => /\ Len(results'.suites) = Len(results.suites) + 1
             /\ Last(results'.suites).id = cur.id
             /\ Len(Last(results'.suites).playbooks) = cur.playbooks]_vars

C1_Witness ==
    /\ pc = "suite_end"
    /\ cur.stopOnFailure = None
    /\ cur.playbooks = 2
    /\ Len(cur.playbooks_done) = 2
    /\ ~cur.playbooks_done[1].success
    /\ cur.playbooks_done[1].error = <<LaunchErrorText>>
    /\ cur.playbooks_done[2].success

\* C2: with stop-on-failure enabled, the first failing playbook that is
\* required (no "required" key counts as required) ends the loop at once; the
\* SuiteResult then holds exactly the results up to and including that one,
\* no playbook beyond the recorded results of a suite is ever launched, and
\* a failing playbook with required=false lets the loop go on.
C2_FirstRequiredFailureHalts ==
    /\ [][(PlaybookCompletes /\ cur.stopOnFailure = Some(TRUE))
             => IF ~Last(cur'.playbooks_done).success
                   /\ cur.playbook.required # Some(FALSE)
                THEN /\ pc' = "suite_end"
                     /\ Len(cur'.playbooks_done) = cur.idx
                ELSE cur.idx < cur.playbooks
                        => pc' = "suite" /\ cur'.idx = cur.idx + 1]_vars
    /\ [][SuiteCompletes
             => Last(results'.suites) = [id |-> cur.id,
                                         playbooks |-> cur.playbooks_done]]_vars
    /\ [][launches' # launches
             => pc = "playbook" /\ launches' = Append(launches, <<cur.id, cur.idx>>)]_vars
    /\ [](\A j \in DOMAIN results.suites : \A l \in DOMAIN launches :
             launches[l][1] = results.suites[j].id
                => launches[l][2] <= Len(results.suites[j].playbooks))

C2_Witness ==
    /\ pc = "suite_end"
    /\ cur.stopOnFailure = Some(TRUE)
    /\ cur.playbooks = 2
    /\ cur.idx = 1
    /\ Len(cur.playbooks_done) = 1
    /\ ~cur.playbooks_done[1].success
    /\ launches = <<<<cur.id, 1>>>>

\* C3: the value run_test_suite returns for a suite is true exactly when no
\* playbook executed in that suite failed, also for a suite of a batch that
\* follows a suite with failures.
C3_SuiteSuccessIsItsOwn ==
    \A i \in DOMAIN returns : \A j \in DOMAIN results.suites :
        results.suites[j].id = returns[i].id
           => (returns[i].success
                 <=> \A k \in DOMAIN results.suites[j].playbooks :
                        results.suites[j].playbooks[k].success)

\* C4: no step lowers any of the RunResult counters total_tests, passed,
\* failed, skipped.
C4_CountersNeverDecrease ==
    [][/\ results'.total_tests >= results.total_tests
       /\ results'.passed >= results.passed
       /\ results'.failed >= results.failed
       /\ results'.skipped >= results.skipped]_vars

InvalidInvocation == ~IsSome(args.suite_id) /\ ~args.all

SuiteNotLoadable ==
    /\ IsSome(args.suite_id) /\ ~args.all /\ ~IsSome(args.tag)
    /\ dir[args.suite_id[1]].status # "ok"

SomePlaybookFailed == \E r \in AllResults : ~r.success

\* C5: the exit code is 1 when a playbook failed, the run was interrupted,
\* the requested suite cannot be loaded or the invocation is invalid, and 0
\* otherwise, every executed playbook having passed.
C5_ExitCode ==
    (pc = "done" /\ ~args.list)
       => exit_code = Some(IF \/ InvalidInvocation
                              \/ interrupted
                              \/ SuiteNotLoadable
                              \/ SomePlaybookFailed
                           THEN 1 ELSE 0)

TagOnly ==
    IsSome(args.tag) /\ ~IsSome(args.suite_id) /\ ~args.all /\ ~args.list

\* C6: invoked with only --tag T, the runner runs the batch of the suites
\* that carry T and saves its report; the invocation is not rejected.
C6_TagOnlyRunsBatch ==
    (TagOnly /\ pc = "done")
       => /\ IsSome(saved)
          /\ ~interrupted
                => [i \in DOMAIN returns |-> returns[i].id] = SelectedSuites(args.tag)

EmptyBatch ==
    /\ ~args.list /\ ~InvalidInvocation
    /\ args.all \/ IsSome(args.tag)
    /\ SelectedSuites(args.tag) = <<>>

\* C7: a batch whose filter selects no suite launches nothing, leaves the
\* counters and the suite list as they were, and is not reported as failed.
C7_EmptyBatchIsNoFailure ==
    (EmptyBatch /\ pc = "done" /\ ~interrupted)
       => /\ launches = <<>>
          /\ results = InitialResults
          /\ exit_code = Some(0)

\* what the loop does after a result r of the playbook at hand (lines 300-309)
LoopGoesOn(r) ==
    /\ results'.passed = results.passed + (IF r.success THEN 1 ELSE 0)
    /\ results'.failed = results.failed + (IF r.success THEN 0 ELSE 1)
    /\ cur'.playbooks_done = Append(cur.playbooks_done, r)
    /\ pc' = IF \/ cur.idx = cur.playbooks
                \/ /\ ~r.success
                   /\ cur.stopOnFailure = Some(TRUE)
                   /\ cur.playbook.required # Some(FALSE)
             THEN "suite_end" ELSE "suite"

\* C8: when the playbook's file does not exist, run_playbook launches no
\* process and returns success=false, duration 0 and a 'Playbook not found'
\* error, which the loop records like any failure (failed +1, stop policy).
C8_MissingFileFailsUnlaunched ==
    [][(pc = "playbook" /\ ~cur.playbook.exists /\ ~interrupted')
          => /\ launches' = launches
             /\ proc' = NoProc
             /\ orphans' = orphans
             /\ Len(cur'.playbooks_done) = Len(cur.playbooks_done) + 1
             /\ Last(cur'.playbooks_done).name = cur.playbook.name
             /\ ~Last(cur'.playbooks_done).success
             /\ Last(cur'.playbooks_done).duration = 0
             /\ Last(cur'.playbooks_done).error =
                    <<"Playbook not found: ", ToString(cur.playbook.name)>>
             /\ LoopGoesOn(Last(cur'.playbooks_done))]_vars

C8_Witness ==
    /\ pc = "done"
    /\ ~interrupted
    /\ now = 1
    /\ launches = <<<<1, 1>>>>
    /\ Len(results.suites) = 1
    /\ Len(results.suites[1].playbooks) = 2
    /\ results.suites[1].playbooks[1].success
    /\ results.suites[1].playbooks[1].duration = 1
    /\ results.suites[1].playbooks[2].error = <<"Playbook not found: ", "2">>
    /\ results.suites[1].playbooks[2].duration = 0
    /\ results.failed = 1
    /\ exit_code = Some(1)

\* C9: a playbook with timeout T whose process is still running, its output
\* stream open, T seconds after launch is terminated and yields the failure
\* 'Timeout after T seconds'.
C9_TimeoutEnforcedFromLaunch ==
    [][(/\ pc = "proc"
        /\ proc.state = "open"
        /\ IsSome(cur.playbook.timeout)
        /\ now - proc.start >= Get(cur.playbook.timeout, 0)
        /\ PlaybookCompletes)
          => /\ ~Last(cur'.playbooks_done).success
             /\ Last(cur'.playbooks_done).error =
                    <<"Timeout after ", ToString(cur.playbook.timeout[1]), " seconds">>]_vars

\* C10: every process-level outcome of run_playbook becomes a PlaybookResult
\* that the loop records and goes on from: exit code 0 gives success=true, a
\* non-zero exit code success=false with the captured output as the error,
\* an error raised by the launch or the read success=false with the
\* exception text as the error.
C10_OutcomeBecomesResult ==
    [][PlaybookCompletes
          => /\ ~interrupted'
             /\ Last(cur'.playbooks_done).name = cur.playbook.name
             /\ LoopGoesOn(Last(cur'.playbooks_done))
             /\ (outcome'.kind = "exit" /\ outcome'.returncode = 0)
                   => /\ Last(cur'.playbooks_done).success
                      /\ Last(cur'.playbooks_done).output = proc.output
             /\ (outcome'.kind = "exit" /\ outcome'.returncode # 0)
                   => /\ ~Last(cur'.playbooks_done).success
                      /\ Last(cur'.playbooks_done).error = proc.output
                      /\ Last(cur'.playbooks_done).output = proc.output
             /\ outcome'.kind = "launch_error"
                   => /\ ~Last(cur'.playbooks_done).success
                      /\ Last(cur'.playbooks_done).error = <<LaunchErrorText>>
             /\ outcome'.kind = "read_error"
                   => /\ ~Last(cur'.playbooks_done).success
                      /\ Last(cur'.playbooks_done).error = <<ReadErrorText>>]_vars

C10_Witness ==
    /\ pc = "suite_end"
    /\ Len(cur.playbooks_done) = 2
    /\ ~cur.playbooks_done[1].success
    /\ cur.playbooks_done[1].error = <<OutputLine>>
    /\ cur.playbooks_done[1].output = <<OutputLine>>
    /\ cur.playbooks_done[2].error = <<ReadErrorText>>
    /\ outcome.kind = "read_error"
    /\ results.failed = 2

\* the places of the key=value arguments in an argv, each after its "-e"
SentAt(argv) == {i \in DOMAIN argv : i > 1 /\ argv[i - 1] = <<"-e">>}
SentFor(argv, k) == {i \in SentAt(argv) : HasEq(argv[i]) /\ Split1(argv[i])[1] = k}

\* what the caller typed: the keys of the well-formed -e strings, and for a
\* key the value of the last string that names it
TypedAt(k) ==
    {i \in DOMAIN cli_extra_vars :
        HasEq(cli_extra_vars[i]) /\ Split1(cli_extra_vars[i])[1] = k}
CallerKeys == {k \in VarNames : TypedAt(k) # {}}
CallerValue(k) ==
    Split1(cli_extra_vars[CHOOSE i \in TypedAt(k) : \A j \in TypedAt(k) : j <= i])[2]

SpecKeys ==
    IF IsSome(playbook_extra_vars)
    THEN {playbook_extra_vars[1][i][1] : i \in DOMAIN playbook_extra_vars[1]}
    ELSE {}
SpecValue(k) ==
    playbook_extra_vars[1][CHOOSE i \in DOMAIN playbook_extra_vars[1] :
                               playbook_extra_vars[1][i][1] = k][2]

\* C11 as claimed: the process receives the playbook's extra_vars overlaid by
\* the caller's variables: every key of either mapping is passed exactly once
\* as key=value, with the caller's value when the caller supplied the key and
\* with the playbook's value otherwise.
C11_CallerOverlaysSpec ==
    IsSome(cmd) =>
        \A k \in SpecKeys \cup CallerKeys :
            /\ Cardinality(SentFor(cmd[1], k)) = 1
            /\ \A i \in SentFor(cmd[1], k) :
                 cmd[1][i] = k \o <<"=">>
                               \o (IF k \in CallerKeys THEN CallerValue(k)
                                   ELSE SpecValue(k))

\* C11 (amended): every key of either mapping is passed exactly once as
\* key=value; the value is the caller's when the caller supplied the key and
\* the playbook's otherwise, except that in dry-run mode dry_run is passed as
\* true, and that AUTOMATION_PATH, when the caller did not supply it, is
\* passed as the base directory whatever the playbook says.
C11_CallerOverlaysSpecButInjected ==
    IsSome(cmd) =>
        \A k \in SpecKeys \cup CallerKeys :
            /\ Cardinality(SentFor(cmd[1], k)) = 1
            /\ \A i \in SentFor(cmd[1], k) :
                 cmd[1][i] = k \o <<"=">>
                               \o (IF dry_run /\ k = <<"dry_run">> THEN <<"true">>
                                   ELSE IF k \in CallerKeys THEN CallerValue(k)
                                   ELSE IF k = <<"AUTOMATION_PATH">> THEN BaseDir
                                   ELSE SpecValue(k))

C11_Witness ==
    /\ IsSome(cmd)
    /\ playbook_extra_vars = Some(<<<<<<"region">>, <<"json">>>>,
                                    <<<<"AUTOMATION_PATH">>, <<"json">>>>>>)
    /\ cli_extra_vars = <<<<"region", "=", "cli">>, <<"region", "=", "a", "=", "b">>>>
    /\ ~dry_run
    /\ verbosity = 5
    /\ cmd[1] = <<<<"ansible-playbook">>, PlaybookFile, <<"-", "v", "v", "v", "v">>,
                  <<"-e">>, <<"region", "=", "a", "=", "b">>,
                  <<"-e">>, <<"AUTOMATION_PATH", "=", "/repo">>>>

\* child processes that were launched and neither exited nor were killed
Alive == orphans + (IF proc.state = "none" THEN 0 ELSE 1)

\* C12: at every moment at most one playbook process is alive; a process is
\* launched only when no earlier one is still running; no playbook of a suite
\* run is launched twice; the PlaybookResults of a SuiteResult stand in the
\* declared order of the playbooks.
C12_OneProcessAtATime ==
    /\ [](Alive <= 1)
    /\ [][launches' # launches => Alive = 0]_vars
    /\ [](\A i, j \in DOMAIN launches : launches[i] = launches[j] => i = j)
    /\ [](\A j \in DOMAIN results.suites : \A k \in DOMAIN results.suites[j].playbooks :
             results.suites[j].playbooks[k].name = k)

BatchRan ==
    /\ pc = "done" /\ ~interrupted
    /\ ~args.list /\ ~InvalidInvocation
    /\ args.all \/ IsSome(args.tag)

\* the identifiers of the suites run_test_suite was called for, in call order
SuitesRun == [i \in DOMAIN returns |-> returns[i].id]

\* C13: a batch run executes exactly the loadable suites that carry the
\* filter tag (all loadable suites without a filter), each once, in ascending
\* order of suite identifier, and counts exactly these in the RunResult;
\* missing and unparseable suite files are neither run nor counted.
C13_BatchRunsSelectionInIdOrder ==
    BatchRan =>
        /\ {SuitesRun[i] : i \in DOMAIN SuitesRun}
              = {s \in SuiteIds : /\ dir[s].status = "ok"
                                  /\ IsSome(args.tag) => args.tag[1] \in dir[s].tags}
        /\ \A i, j \in DOMAIN SuitesRun :
              i < j => TextLess(SuiteId(SuitesRun[i]), SuiteId(SuitesRun[j]))
        /\ [j \in DOMAIN results.suites |-> results.suites[j].id] = SuitesRun

\* the PlaybookResults of a report, suite after suite
RECURSIVE Reported(_)
Reported(suites) ==
    IF suites = <<>> THEN <<>> ELSE suites[1].playbooks \o Reported(Tail(suites))

Passed(r) == r.success
Failed(r) == ~r.success

\* C14: after a keyboard interrupt the results are still saved, every
\* playbook that completed before the interrupt is in the saved report, and
\* the saved passed and failed counters are the numbers of passed and failed
\* playbooks of that report.
C14_InterruptedReportIsTrue ==
    (pc = "done" /\ interrupted)
       => /\ IsSome(saved)
          /\ Len(Reported(saved[1].suites)) = executed
          /\ saved[1].passed = Len(SelectSeq(Reported(saved[1].suites), Passed))
          /\ saved[1].failed = Len(SelectSeq(Reported(saved[1].suites), Failed))

\* the name the claim gives a testcase: '<test_case_id>: <description>' when
\* the PlaybookResult has an id, its description otherwise
ClaimedName(p) ==
    IF p.test_case_id \notin {Absent, <<>>}
    THEN p.test_case_id \o <<": ">> \o p.description
    ELSE p.description

\* with the playbook's name for the description a PlaybookResult lacks
NameOrDescription(p) ==
    IF p.test_case_id \notin {Absent, <<>>}
    THEN p.test_case_id \o <<": ">> \o p.description
    ELSE IF p.description = Absent THEN <<ToString(p.name)>> ELSE p.description

FailedTestcase(tc) == tc.failure # None

\* C15 as claimed: the JUnit document has one testsuite per SuiteResult in
\* run order and under it one testcase per PlaybookResult in execution
\* order, named '<test_case_id>: <description>' with an id and by the
\* description alone without; a testcase has a failure block exactly when
\* its playbook failed; tests and failures of a testsuite count its
\* testcases and its failed testcases.
C15_JUnitMirrorsRunResult ==
    IsSome(junit) =>
        /\ Len(junit[1].testsuites) = Len(results.suites)
        /\ \A j \in DOMAIN results.suites :
            LET ts == junit[1].testsuites[j]
                pbs == results.suites[j].playbooks
            IN  /\ Len(ts.testcases) = Len(pbs)
                /\ ts.tests = Len(ts.testcases)
                /\ ts.failures = Len(SelectSeq(ts.testcases, FailedTestcase))
                /\ \A k \in DOMAIN pbs :
                     /\ ts.testcases[k].name = ClaimedName(pbs[k])
                     /\ (ts.testcases[k].failure # None) <=> ~pbs[k].success

\* C15 (amended): the same, a PlaybookResult that carries neither id nor
\* description (a playbook whose file was not found) being named by its
\* playbook name.
C15_JUnitMirrorsRunResultNamed ==
    IsSome(junit) =>
        /\ Len(junit[1].testsuites) = Len(results.suites)
        /\ \A j \in DOMAIN results.suites :
            LET ts == junit[1].testsuites[j]
                pbs == results.suites[j].playbooks
            IN  /\ Len(ts.testcases) = Len(pbs)
                /\ ts.tests = Len(ts.testcases)
                /\ ts.failures = Len(SelectSeq(ts.testcases, FailedTestcase))
                /\ \A k \in DOMAIN pbs :
                     /\ ts.testcases[k].name = NameOrDescription(pbs[k])
                     /\ (ts.testcases[k].failure # None) <=> ~pbs[k].success

C15_Witness ==
    /\ IsSome(junit)
    /\ Len(results.suites) = 2
    /\ Len(results.suites[1].playbooks) = 1
    /\ Len(results.suites[2].playbooks) = 2
    /\ results.suites[2].playbooks[1].success
    /\ results.suites[2].playbooks[2].error = <<"Playbook not found: ", "1">>
    /\ junit[1].testsuites[1].testcases[1].name = <<"RHACM4K-1", ": ">>
    /\ junit[1].testsuites[1].testcases[1].failure # None
    /\ junit[1].testsuites[2].tests = 2
    /\ junit[1].testsuites[2].failures = 1
    /\ junit[1].testsuites[2].testcases[1].name = <<"Create the cluster">>
    /\ junit[1].testsuites[2].testcases[2].name = <<"1">>

\* the successful PlaybookResults of the run, in suite and execution order
SuccessfulOnes == SelectSeq(Reported(results.suites), Passed)

\* the outputs in which _extract_environment_info finds nothing
MatchesNothing(output) ==
    output \in {Absent, <<>>} \/ \A i \in DOMAIN output : output[i] = OutputLine

\* C16: the environment information of the HTML report is what the output of
\* the first successful playbook of the run yields; when that output matches
\* no pattern (or no playbook succeeded) the report has no environment
\* section.
C16_EnvInfoFromFirstSuccess ==
    IsSome(html) =>
        IF SuccessfulOnes = <<>> \/ MatchesNothing(SuccessfulOnes[1].output)
        THEN ~html[1].env_section /\ html[1].env_info = {}
        ELSE /\ html[1].env_section
             /\ html[1].env_info = ExtractEnvironmentInfo(SuccessfulOnes[1].output)

\* where a record named n sits in the list, 0 when there is none
PlaceOf(envs, n) ==
    IF \E i \in DOMAIN envs : envs[i].cluster_name = n
    THEN CHOOSE i \in DOMAIN envs : envs[i].cluster_name = n
    ELSE 0

\* C17: add_environment on a present cluster name replaces that record where
\* it stands, keeps its added timestamp and the number of records; on a new
\* name it appends one record whose two timestamps are readings of the clock
\* during the call. A second upsert of the same name and payload so leaves
\* the added timestamp and the record count as the first left them.
C17_AddIsUpsert ==
    [][last_call'.op = "add"
         => LET n == last_call'.arg[1]
                at == PlaceOf(environments, n)
            IN  IF at # 0
                THEN /\ Len(environments') = Len(environments)
                     /\ \A i \in DOMAIN environments :
                          i # at => environments'[i] = environments[i]
                     /\ environments'[at].cluster_name = n
                     /\ environments'[at].added_date = environments[at].added_date
                     /\ environments'[at].last_accessed = clock'
                     /\ environments'[at].data.cluster.hub_cluster = n
                     /\ environments'[at].platform = environments'[at].data.cluster.platform
                ELSE /\ Len(environments') = Len(environments) + 1
                     /\ SubSeq(environments', 1, Len(environments)) = environments
                     /\ Last(environments').cluster_name = n
                     /\ clock <= Last(environments').added_date
                     /\ Last(environments').added_date <= Last(environments').last_accessed
                     /\ Last(environments').last_accessed = clock']_vars

C17_Witness ==
    /\ last_call.op = "add"
    /\ Len(environments) = 2
    /\ last_call.arg = Some(environments[1].cluster_name)
    /\ environments[1].added_date = 0
    /\ environments[1].last_accessed = 1
    /\ environments[2].added_date = 1

\* C18: from an empty store, whatever calls are made, no two records of the
\* store, in memory or in the file, have the same cluster name.
C18_ClusterNamesUnique ==
    /\ \A i, j \in DOMAIN environments :
          environments[i].cluster_name = environments[j].cluster_name => i = j
    /\ IsSome(db) =>
          \A i, j \in DOMAIN db[1] : db[1][i].cluster_name = db[1][j].cluster_name => i = j

C18_Witness ==
    /\ last_call.op = "add"
    /\ Len(environments) = 2
    /\ last_call.arg = Some(environments[2].cluster_name)
    /\ environments[2].added_date = 0
    /\ environments[2].last_accessed = 1
    /\ environments[2].status = "unknown"
    /\ environments[1].status = "pass"

\* C19: get_environment on a present cluster name sets that record's
\* last-accessed timestamp to the time of the call, writes the store to the
\* file, and changes nothing else of that record and no other record; on an
\* absent name it returns nothing and leaves store and file as they were.
C19_GetTouchesOnlyLastAccessed ==
    [][last_call'.op = "get"
         => LET at == PlaceOf(environments, last_call'.arg[1])
            IN  IF at # 0
                THEN /\ clock' >= clock
                     /\ environments' =
                           [environments EXCEPT ![at].last_accessed = clock']
                     /\ last_call'.value = Some(environments'[at])
                     /\ db' = Some(environments')
                ELSE /\ last_call'.value = None
                     /\ environments' = environments
                     /\ db' = db]_vars

C19_Witness ==
    /\ last_call.op = "get"
    /\ IsSome(last_call.value)
    /\ Len(environments) = 2
    /\ last_call.value[1] = environments[2]
    /\ environments[2].added_date = 0
    /\ environments[2].last_accessed = 1
    /\ environments[1].last_accessed = 0
    /\ db = Some(environments)

\* the fields search_environments scans, a ticket reference that is null or
\* missing counting as empty
ScannedFields(env) ==
    {env.cluster_name, env.platform, env.notes}
        \cup (IF env.data.notification = None THEN {}
              ELSE {env.data.notification[1].jira, env.data.notification[1].polarion} \ {Null})

ShouldMatch(query, env) ==
    \E field \in ScannedFields(env) : IsSubstring(Lower(query), Lower(field))

\* C20: search_environments returns, in storage order, exactly the records
\* in which the lower-cased query is a substring of the lower-cased cluster
\* name, platform, notes, notification jira or notification polarion.
C20_SearchScansFiveFields ==
    [][last_call'.op = "search"
         => LET Hit(env) == ShouldMatch(last_call'.arg[1], env)
            IN  last_call'.value = Some(SelectSeq(environments, Hit))]_vars

\* C21: the 'environments' list of the file at db_path (empty when there is
\* no file) equals the list the manager holds, after every call and between
\* calls.
C21_FileEqualsMemory ==
    environments = (IF IsSome(db) THEN db[1] ELSE <<>>)

\* C29: list_environments leaves the manager's list as it was, order
\* included, and returns the records passing the filters, most recently
\* accessed first.
C29_ListIsReadOnly ==
    [][last_call'.op = "list"
         => /\ environments' = environments
            /\ last_call'.value =
                  Some(Listed(environments, last_call'.arg[1][1], last_call'.arg[1][2]))]_vars

\* C30: search_environments returns a list, whatever records add_environment
\* stored from the parser's output, records with a null jira or polarion
\* reference included.
C30_SearchNeverRaises ==
    [][last_call'.op = "search" => IsSome(last_call'.value)]_vars

\* the statuses a record may have
KnownStatuses == {"pass", "fail", "blocked", "in_progress", "unknown"}

\* C22: whatever runs of the scripts are made (the parser's add,
\* --update-status, --add-notes, the selector's status update, --delete),
\* every record of the store, in memory or in the file, has one of the five
\* statuses.
C22_StatusIsEnumerated ==
    /\ \A i \in DOMAIN environments : environments[i].status \in KnownStatuses
    /\ \A i \in DOMAIN Loaded : Loaded[i].status \in KnownStatuses

\* C23: parse_spreadsheet_row on a row of fewer than six delimited fields
\* returns the empty record, whatever the parser has parsed before.
C23_ShortRowGivesEmptyRecord ==
    (IsSome(parsed) /\ parsed[1].fields < 6) => parsed[1].value = None

\* C24: for the cluster the parser holds, the API URL of the connection
\* info, the one --login hands to 'oc login' and the one of the manager's
\* connection command are the same, once derived.
C24_ApiUrlsAgree ==
    /\ (IsSome(api_urls.info) /\ IsSome(api_urls.login)) => api_urls.login = api_urls.info
    /\ (IsSome(api_urls.info) /\ IsSome(api_urls.select)) => api_urls.select = api_urls.info

\* C25: in a batch, whatever a suite returned, the next selected suite is
\* run; within every suite of the batch the loop ends only at the suite's
\* last playbook or at a failed required playbook under the suite's own
\* stop-on-failure flag; an uninterrupted batch has run every selected suite.
C25_BatchGoesOnAfterFailure ==
    /\ [][(IsBatch /\ returns' # returns /\ Tail(queue) # <<>>)
             => pc' = "batch" /\ queue' = Tail(queue)]_vars
    /\ [][(IsBatch /\ PlaybookCompletes)
             => IF \/ cur.idx = cur.playbooks
                   \/ /\ ~Last(cur'.playbooks_done).success
                      /\ cur.stopOnFailure = Some(TRUE)
                      /\ cur.playbook.required # Some(FALSE)
                THEN pc' = "suite_end"
                ELSE pc' = "suite" /\ cur'.idx = cur.idx + 1]_vars
    /\ [](BatchRan => SuitesRun = SelectedSuites(args.tag))

C25_Witness ==
    /\ IsBatch
    /\ pc = "suite_end"
    /\ Len(returns) = 1
    /\ ~returns[1].success
    /\ Len(results.suites) = 1
    /\ Len(results.suites[1].playbooks) = 1
    /\ ~results.suites[1].playbooks[1].success
    /\ cur.stopOnFailure = Some(TRUE)
    /\ cur.playbooks = 2
    /\ Len(cur.playbooks_done) = 2
    /\ cur.playbooks_done[2].success

\* C26: when a run that was not interrupted has ended, total_tests is
\* passed + failed + skipped, and passed + failed is the number of
\* PlaybookResults of the report.
C26_CountersConsistent ==
    (pc = "done" /\ IsSome(saved) /\ ~interrupted)
       => /\ results.total_tests = results.passed + results.failed + results.skipped
          /\ results.passed + results.failed = Len(Reported(results.suites))

\* C27: the pass percentage of the HTML report is at least 0 and at most 100.
C27_PassedPctInRange ==
    IsSome(html)
       => /\ 0 <= html[1].passed_pct.num
          /\ html[1].passed_pct.num <= 100 * html[1].passed_pct.den

\* C28: in the JUnit document the tests and failures attributes of the root
\* are the sums of those of its testsuite elements.
C28_JUnitRootSumsSuites ==
    IsSome(junit)
       => LET ts == junit[1].testsuites
          IN  /\ junit[1].tests = SumTo([j \in DOMAIN ts |-> ts[j].tests], Len(ts))
              /\ junit[1].failures = SumTo([j \in DOMAIN ts |-> ts[j].failures], Len(ts))

====
